---------------------------- MODULE Spec2Model ----------------------------
(***************************************************************************)
(* Recurrence resolution of events/events.js: for a recurring event (a    *)
(* cadence descriptor and an anchor start) the next occurrence strictly   *)
(* after a reference instant "now".                                       *)
(*                                                                        *)
(* An instant is a JavaScript Date time value, counted here in minutes    *)
(* since 2024-01-01T00:00Z (a Monday); seconds and milliseconds are zero  *)
(* in every instant of the model.  Date's local-time methods are modelled *)
(* after ECMAScript's LocalTime/UTC conversions for the host time zone,   *)
(* which is either a zone without daylight saving ("UTC") or the zone of  *)
(* the village hall ("Europe/London": +60 minutes between 01:00Z of the   *)
(* last Sunday of March and 01:00Z of the last Sunday of October).        *)
(*                                                                        *)
(* A JavaScript number that comes from the event data (interval, weekday, *)
(* weekOfMonth and what is computed from them) may be fractional; such    *)
(* numbers are counted in halves: Num(n) is the integer n, 3 is 1.5.      *)
(***************************************************************************)
EXTENDS Integers, Sequences, FiniteSets

VARIABLES
  tz,           \* the host's time zone
  ev,           \* the event record: its cadence and dateStart
  now,          \* the reference instant of this page load
  pc,           \* position: ready, weekly, weekly_loop, monthly, monthly_loop, done
  route,        \* the resolver nextOccurrenceForEvent called: none, weekly, monthly
  anchorStart,  \* parseDate(ev.dateStart)
  intv, wd, wom,    \* Number(interval ?? 1), Number(weekday), Number(weekOfMonth)
  base, candidate,  \* nextWeeklyOccurrence's locals
  steps,        \* iterations of the weekly catch-up loop so far
  cursor, i,    \* nextMonthlyOccurrence's locals
  visited,      \* the cursors of the monthly loop's iterations so far
  result,       \* the value returned (Null: none)
  prev          \* the latest occurrence resolved at an earlier page load

vars == <<tz, ev, now, pc, route, anchorStart, intv, wd, wom, base, candidate,
          steps, cursor, i, visited, result, prev>>

-----------------------------------------------------------------------------
(* Calendar of the host: Gregorian, days counted from 2024-01-01; every    *)
(* fourth year from 2024 on is a leap year (right for 1901..2099).         *)

IsLeap(y) == y % 4 = 0

\* The day number of 1 January of year y.
DaysBeforeYear(y) == (y - 2024) * 365 + ((y - 2024 + 3) \div 4)

CumulativeDays == <<0, 31, 59, 90, 120, 151, 181, 212, 243, 273, 304, 334, 365>>

\* The days of year y before its month m (0..11; 12: the whole year).
DaysBeforeMonth(y, m) ==
  CumulativeDays[m + 1] + (IF IsLeap(y) /\ m >= 2 THEN 1 ELSE 0)

\* ECMAScript MakeDay(year, month, date): month and date may overflow.
MakeDay(y, m, d) ==
  DaysBeforeYear(y + (m \div 12)) + DaysBeforeMonth(y + (m \div 12), m % 12) + d - 1

\* The year of day number n: 1461 days to every four years.
YearInCycle(r) == IF r < 366 THEN 0 ELSE (r - 366) \div 365 + 1
YearFromDay(n) == 2024 + 4 * (n \div 1461) + YearInCycle(n % 1461)

DayInYear(n) == n - DaysBeforeYear(YearFromDay(n))

MonthOf(y, doy) ==
  CHOOSE m \in 0..11 : DaysBeforeMonth(y, m) <= doy /\ doy < DaysBeforeMonth(y, m + 1)

MonthFromDay(n) == MonthOf(YearFromDay(n), DayInYear(n))

DateFromDay(n) ==
  DayInYear(n) - DaysBeforeMonth(YearFromDay(n), MonthFromDay(n)) + 1

\* 2024-01-01 is a Monday; Sunday is 0 as in Date.prototype.getDay.
WeekDayOfDay(n) == (n + 1) % 7

-----------------------------------------------------------------------------
(* The host time zone and ECMAScript's LocalTime(t) and UTC(t)             *)

TimeZones == {"UTC", "Europe/London"}

LastSunday(y, m) ==
  LET last == MakeDay(y, m + 1, 0)
  IN  last - WeekDayOfDay(last)

DstStart(y) == LastSunday(y, 2) * 1440 + 60
DstEnd(y) == LastSunday(y, 9) * 1440 + 60

\* The zone's offset from UTC, in minutes, at UTC instant t.
Offset(t) ==
  LET y == YearFromDay(t \div 1440)
  IN  IF tz = "Europe/London" /\ DstStart(y) <= t /\ t < DstEnd(y)
      THEN 60 ELSE 0

LocalTime(t) == t + Offset(t)

\* UTC(tlocal): a local time that is skipped or repeated at a transition is
\* interpreted with the offset in force before the transition.
LocalToUtc(tl) == tl - Offset(tl - 60)

LocalDay(t) == LocalTime(t) \div 1440
TimeWithinDay(t) == LocalTime(t) % 1440

getTime(d) == d
getFullYear(d) == YearFromDay(LocalDay(d))
getMonth(d) == MonthFromDay(LocalDay(d))
getDate(d) == DateFromDay(LocalDay(d))
getDay(d) == WeekDayOfDay(LocalDay(d))
getHours(d) == TimeWithinDay(d) \div 60
getMinutes(d) == TimeWithinDay(d) % 60

\* new Date(year, monthIndex, day): local midnight of that calendar day.
NewDate(y, m, d) == LocalToUtc(MakeDay(y, m, d) * 1440)

setHours(d, h, mi) == LocalToUtc(LocalDay(d) * 1440 + h * 60 + mi)

setDate(d, date) ==
  LocalToUtc(MakeDay(getFullYear(d), getMonth(d), date) * 1440 + TimeWithinDay(d))

setMonth(d, m) ==
  LocalToUtc(MakeDay(getFullYear(d), m, getDate(d)) * 1440 + TimeWithinDay(d))

\* Numbers of the event data, in halves; ToInt is ToIntegerOrInfinity.
Num(n) == 2 * n
ToInt(x) == IF x >= 0 THEN x \div 2 ELSE -((-x) \div 2)
IsInt(x) == x % 2 = 0

-----------------------------------------------------------------------------
(* Calendar arithmetic of events.js                                        *)

startOfDay(d) == setHours(d, 0, 0)

\* days is a number in halves: setDate truncates getDate() + days.
addDays(d, days) == setDate(d, ToInt(Num(getDate(d)) + days))

addWeeks(d, weeks) == addDays(d, weeks * 7)

\* Mutant: the cursor advances by one month too many.
addMonths_Twice(d, months) == setMonth(d, getMonth(d) + months + 1)

addMonths(d, months) ==
  LET day == getDate(d)
      x == setMonth(d, getMonth(d) + months)
  IN  IF getDate(x) # day THEN setDate(x, 0) ELSE x

\* Mutant: only the anchor's hour is copied.
setTimeFromAnchor_HoursOnly(dateOnly, anchor) ==
  setHours(dateOnly, getHours(anchor), 0)

setTimeFromAnchor(dateOnly, anchor) ==
  setHours(dateOnly, getHours(anchor), getMinutes(anchor))

weeksBetween(a, b) ==
  LET ms == getTime(startOfDay(b)) - getTime(startOfDay(a))
  IN  ms \div (7 * 24 * 60)

\* weekday and weekOfMonth are numbers in halves.
nthWeekdayOfMonth(year, monthIndex, weekday, weekOfMonth) ==
  LET first == NewDate(year, monthIndex, 1)
      offset == (weekday - Num(getDay(first)) + Num(7)) % Num(7)
      day == Num(1) + offset + (weekOfMonth - Num(1)) * 7
  IN  NewDate(year, monthIndex, ToInt(day))


-----------------------------------------------------------------------------
(* Values of the event data (events.json) and their conversions            *)

\* null, as returned by parseDate and the resolvers; no instant is negative.
Null == -1

Undefined == [k |-> "undefined", v |-> 0]
JsNull == [k |-> "null", v |-> 0]
EmptyStr == [k |-> "string", v |-> 0]
Text == [k |-> "string", v |-> 1]
N(x) == [k |-> "number", v |-> x]

\* Number(value): NaN for undefined and a non-numeric string, 0 for null and "".
Number(value) ==
  IF value.k = "number" THEN [nan |-> FALSE, v |-> value.v]
  ELSE IF value.k = "undefined" \/ value = Text THEN [nan |-> TRUE, v |-> 0]
  ELSE [nan |-> FALSE, v |-> 0]

NaN == [nan |-> TRUE, v |-> 0]

\* value ?? fallback
Coalesce(value, fallback) ==
  IF value.k \in {"undefined", "null"} THEN fallback ELSE value

isFinite(n) == ~n.nan

\* dateStart values: absent, "", an unparseable string, a date-time string.
NoDate == [k |-> "undefined", t |-> 0]
EmptyDate == [k |-> "empty", t |-> 0]
BadDate == [k |-> "invalid", t |-> 0]
DateString(t) == [k |-> "date", t |-> t]

\* Mutant: the parsed Date is not checked with isValidDate.
parseDate_Unvalidated(value) ==
  IF value.k \in {"undefined", "empty"} THEN Null ELSE value.t

parseDate(value) ==
  IF value.k \in {"undefined", "empty"} THEN Null
  ELSE IF value.k = "date" THEN value.t
  ELSE Null

-----------------------------------------------------------------------------
(* Inputs                                                                  *)

MaxInterval == 3
WindowDays == 8

Utc(y, m, d, h, mi) == MakeDay(y, m, d) * 1440 + h * 60 + mi

Anchors ==
  { Utc(2024, 0, 1, 9, 0),      \* Mon 2024-01-01 09:00
    Utc(2024, 2, 1, 8, 0),      \* Fri 2024-03-01 08:00
    Utc(2024, 2, 17, 1, 30),    \* Sun 2024-03-17 01:30
    Utc(2024, 9, 27, 1, 30),    \* Sun 2024-10-27 01:30Z
    Utc(2026, 5, 15, 9, 0) }    \* Mon 2026-06-15 09:00Z

TimesOfDay == {90, 540, 1410}

\* The days from the start of daylight saving (Sun 2024-03-31) on, the day it
\* ends (Sun 2024-10-27) and a week later, and two days around a February
\* whose fifth weekdays spill into March.
NowDays ==
  { MakeDay(2024, 2, 31) + k : k \in 0..WindowDays }
  \cup { MakeDay(2024, 9, 27), MakeDay(2024, 10, 3) }
  \cup { MakeDay(2024, 1, 29), MakeDay(2024, 2, 1) }

\* The sampled reference instants.
Nows == { d * 1440 + t : d \in NowDays, t \in TimesOfDay } \cup Anchors

WeekdayValues == { N(Num(d)) : d \in 0..6 }
OddWeekdayValues == { Undefined, JsNull, EmptyStr, Text, N(Num(7)), N(-2), N(3) }
IntervalValues == { Undefined } \cup { N(Num(k)) : k \in 2..MaxInterval }
OddIntervalValues == { JsNull, EmptyStr, Text, N(0), N(3), N(-2) }
WeekOfMonthValues == { N(Num(k)) : k \in 1..5 }
OddWeekOfMonthValues == { Undefined, JsNull, EmptyStr, Text, N(0), N(Num(6)), N(3) }

Cadence(kind, type, interval, weekday, weekOfMonth) ==
  [kind |-> kind, type |-> type, interval |-> interval, weekday |-> weekday,
   weekOfMonth |-> weekOfMonth]

\* Descriptors that satisfy the data model's invariant.
ValidCadences ==
  { Cadence("object", "weekly", iv, w, Undefined) :
      iv \in IntervalValues, w \in WeekdayValues }
  \cup { Cadence("object", "monthly", Undefined, w, k) :
      w \in WeekdayValues, k \in WeekOfMonthValues }

\* Descriptors with one field outside the invariant, and other shapes.
OddCadences ==
  { Cadence("object", "weekly", Undefined, w, Undefined) : w \in OddWeekdayValues }
  \cup { Cadence("object", "weekly", iv, N(Num(1)), Undefined) : iv \in OddIntervalValues }
  \cup { Cadence("object", "monthly", Undefined, w, N(Num(1))) : w \in OddWeekdayValues }
  \cup { Cadence("object", "monthly", Undefined, N(Num(5)), k) : k \in OddWeekOfMonthValues }
  \cup { Cadence("object", "yearly", N(Num(1)), N(Num(1)), N(Num(1))),
         Cadence("object", "undefined", N(Num(1)), N(Num(1)), N(Num(1))),
         Cadence("undefined", "undefined", Undefined, Undefined, Undefined),
         Cadence("null", "undefined", Undefined, Undefined, Undefined),
         Cadence("string", "undefined", Undefined, Undefined, Undefined) }

Events ==
  { [cadence |-> c, dateStart |-> DateString(a)] : c \in ValidCadences, a \in Anchors }
  \cup { [cadence |-> c, dateStart |-> DateString(Utc(2024, 0, 1, 9, 0))] :
           c \in OddCadences }
  \cup { [cadence |-> c, dateStart |-> d] :
      c \in { Cadence("object", "weekly", Undefined, N(Num(1)), Undefined),
              Cadence("object", "monthly", Undefined, N(Num(1)), N(Num(1))) },
      d \in { NoDate, EmptyDate, BadDate } }

-----------------------------------------------------------------------------
(* The resolvers                                                           *)

WeeklyInvalid(iv, w) ==
  ~isFinite(iv) \/ iv.v < Num(1) \/ ~isFinite(w) \/ w.v < Num(0) \/ w.v > Num(6)

MonthlyInvalid(w, k) ==
  ~isFinite(w) \/ w.v < Num(0) \/ w.v > Num(6)
    \/ ~isFinite(k) \/ k.v < Num(1) \/ k.v > Num(5)

\* The first matching weekday on/after anchor, keeping the anchor's time.
WeeklyBase(anchor, weekday) ==
  LET anchorDay == startOfDay(anchor)
      deltaToWd == (weekday - Num(getDay(anchorDay)) + Num(7)) % Num(7)
      firstDay == addDays(anchorDay, deltaToWd)
      b == setTimeFromAnchor(firstDay, anchor)
  IN  IF getTime(b) < getTime(anchor) THEN addWeeks(b, Num(1)) ELSE b

\* Math.floor(w / intv) for the integer w and intv in halves.
Blocks(w, interval) == (2 * w) \div interval

\* The jump in interval-week blocks from base.
WeeklyJump(b, interval, t) ==
  LET w == weeksBetween(b, t)
      blocks == Blocks(w, interval)
  IN  addWeeks(b, blocks * interval)

MonthStart(t) == NewDate(getFullYear(t), getMonth(t), 1)

MonthlyOcc(c, weekday, weekOfMonth, anchor) ==
  LET occDateOnly == nthWeekdayOfMonth(getFullYear(c), getMonth(c), weekday, weekOfMonth)
  IN  setTimeFromAnchor(occDateOnly, anchor)

\* Mutant: an occurrence before the anchor is not passed over.
BeforeAnchor_Never(occ, anchor) == FALSE

\* occ.getTime() < anchorStart.getTime(): the recurrence has not started yet.
BeforeAnchor(occ, anchor) == getTime(occ) < getTime(anchor)

Horizon == 24

-----------------------------------------------------------------------------
(* State machine: one recurring event, resolved at each page load          *)

Init ==
  /\ tz \in TimeZones
  /\ ev \in Events
  /\ now \in Nows
  /\ pc = "ready"
  /\ route = "none"
  /\ anchorStart = Null
  /\ intv = NaN /\ wd = NaN /\ wom = NaN
  /\ base = Null /\ candidate = Null /\ steps = 0
  /\ cursor = Null /\ i = 0 /\ visited = <<>>
  /\ result = Null
  /\ prev = Null

Return(value) ==
  /\ result' = value
  /\ pc' = "done"

nextOccurrenceForEvent ==
  /\ pc = "ready"
  /\ LET cadence == ev.cadence
         a == parseDate(ev.dateStart)
     IN  IF cadence.kind # "object"
         THEN Return(Null) /\ UNCHANGED <<anchorStart, route>>
         ELSE IF a = Null
         THEN Return(Null) /\ UNCHANGED <<anchorStart, route>>
         ELSE IF cadence.type = "weekly"
         THEN /\ pc' = "weekly" /\ route' = "weekly"
              /\ anchorStart' = a /\ result' = result
         ELSE IF cadence.type = "monthly"
         THEN /\ pc' = "monthly" /\ route' = "monthly"
              /\ anchorStart' = a /\ result' = result
         ELSE Return(Null) /\ anchorStart' = a /\ route' = route
  /\ UNCHANGED <<tz, ev, now, intv, wd, wom, base, candidate, steps, cursor, i,
                 visited, prev>>

nextWeeklyOccurrence ==
  /\ pc = "weekly"
  /\ LET iv == Number(Coalesce(ev.cadence.interval, N(Num(1))))
         w == Number(ev.cadence.weekday)
     IN  /\ intv' = iv /\ wd' = w
         /\ IF anchorStart = Null \/ WeeklyInvalid(iv, w)
            THEN Return(Null) /\ UNCHANGED <<base, candidate>>
            ELSE LET b == WeeklyBase(anchorStart, w.v)
                 IN  /\ base' = b
                     /\ IF getTime(b) > getTime(now)
                        THEN Return(b) /\ UNCHANGED candidate
                        ELSE /\ candidate' = WeeklyJump(b, iv.v, now)
                             /\ pc' = "weekly_loop"
                             /\ result' = result
  /\ UNCHANGED <<tz, ev, now, route, anchorStart, wom, steps, cursor, i, visited, prev>>

WeeklyLoop ==
  /\ pc = "weekly_loop"
  /\ getTime(candidate) <= getTime(now)
  /\ candidate' = addWeeks(candidate, intv.v)
  /\ steps' = steps + 1
  /\ UNCHANGED <<tz, ev, now, pc, route, anchorStart, intv, wd, wom, base, cursor, i,
                 visited, result, prev>>

WeeklyReturn ==
  /\ pc = "weekly_loop"
  /\ getTime(candidate) > getTime(now)
  /\ Return(candidate)
  /\ UNCHANGED <<tz, ev, now, route, anchorStart, intv, wd, wom, base, candidate, steps,
                 cursor, i, visited, prev>>

nextMonthlyOccurrence ==
  /\ pc = "monthly"
  /\ LET w == Number(ev.cadence.weekday)
         k == Number(ev.cadence.weekOfMonth)
     IN  /\ wd' = w /\ wom' = k
         /\ IF anchorStart = Null \/ MonthlyInvalid(w, k)
            THEN Return(Null) /\ UNCHANGED cursor
            ELSE /\ cursor' = MonthStart(now)
                 /\ pc' = "monthly_loop"
                 /\ result' = result
  /\ UNCHANGED <<tz, ev, now, route, anchorStart, intv, base, candidate, steps, i,
                 visited, prev>>

MonthlyLoop ==
  /\ pc = "monthly_loop"
  /\ i < Horizon
  /\ visited' = Append(visited, cursor)
  /\ LET occ == MonthlyOcc(cursor, wd.v, wom.v, anchorStart)
     IN  IF BeforeAnchor(occ, anchorStart)
         THEN /\ cursor' = addMonths(cursor, 1) /\ i' = i + 1
              /\ UNCHANGED <<pc, result>>
         ELSE IF getTime(occ) > getTime(now)
         THEN Return(occ) /\ UNCHANGED <<cursor, i>>
         ELSE /\ cursor' = addMonths(cursor, 1) /\ i' = i + 1
              /\ UNCHANGED <<pc, result>>
  /\ UNCHANGED <<tz, ev, now, route, anchorStart, intv, wd, wom, base, candidate, steps,
                 prev>>

MonthlyExhausted ==
  /\ pc = "monthly_loop"
  /\ i >= Horizon
  /\ Return(Null)
  /\ UNCHANGED <<tz, ev, now, route, anchorStart, intv, wd, wom, base, candidate, steps,
                 cursor, i, visited, prev>>

\* The page is loaded again at the next sampled instant: main() takes a fresh
\* now; prev keeps the latest occurrence resolved at an earlier now.
Reload ==
  /\ pc = "done"
  /\ \E t \in Nows :
       /\ t > now
       /\ \A u \in Nows : u > now => t <= u
       /\ now' = t
  /\ prev' = IF result # Null THEN result ELSE prev
  /\ pc' = "ready"
  /\ route' = "none"
  /\ anchorStart' = Null
  /\ intv' = NaN /\ wd' = NaN /\ wom' = NaN
  /\ base' = Null /\ candidate' = Null /\ steps' = 0
  /\ cursor' = Null /\ i' = 0 /\ visited' = <<>>
  /\ result' = Null
  /\ UNCHANGED <<tz, ev>>

\* One resolution of the event at one page load.
Next ==
  \/ nextOccurrenceForEvent
  \/ nextWeeklyOccurrence
  \/ WeeklyLoop
  \/ WeeklyReturn
  \/ nextMonthlyOccurrence
  \/ MonthlyLoop
  \/ MonthlyExhausted

Spec == Init /\ [][Next]_vars

\* The event resolved again at each later page load.
NextReload ==
  \/ nextOccurrenceForEvent
  \/ nextWeeklyOccurrence
  \/ WeeklyLoop
  \/ WeeklyReturn
  \/ nextMonthlyOccurrence
  \/ MonthlyLoop
  \/ MonthlyExhausted
  \/ Reload

SpecReload == Init /\ [][NextReload]_vars

-----------------------------------------------------------------------------
(* Vocabulary of the properties                                            *)

Done == pc = "done"

Anchor == parseDate(ev.dateStart)

\* The dispatcher has a structured cadence and a parseable anchor.
Resolvable == ev.cadence.kind = "object" /\ Anchor # Null

IntegerIn(value, lo, hi) ==
  value.k = "number" /\ IsInt(value.v) /\ Num(lo) <= value.v /\ value.v <= Num(hi)

Absent(value) == value.k \in {"undefined", "null"}

\* The data model's invariant on the two kinds of descriptor.
ValidWeekly ==
  /\ Resolvable /\ ev.cadence.type = "weekly"
  /\ IntegerIn(ev.cadence.weekday, 0, 6)
  /\ \/ Absent(ev.cadence.interval)
     \/ ev.cadence.interval.k = "number" /\ IsInt(ev.cadence.interval.v)
          /\ ev.cadence.interval.v >= Num(1)

ValidMonthly ==
  /\ Resolvable /\ ev.cadence.type = "monthly"
  /\ IntegerIn(ev.cadence.weekday, 0, 6)
  /\ IntegerIn(ev.cadence.weekOfMonth, 1, 5)

IntervalWeeks ==
  IF Absent(ev.cadence.interval) THEN Num(1) ELSE ev.cadence.interval.v

Weekday == ev.cadence.weekday.v
WeekOfMonth == ev.cadence.weekOfMonth.v

SameTimeOfDay(a, b) == getHours(a) = getHours(b) /\ getMinutes(a) = getMinutes(b)

\* The wall-clock time of a on the calendar day of d does not exist in the
\* host zone (it is skipped by the start of daylight saving).
SkippedOn(d, a) ==
  LET tl == LocalDay(d) * 1440 + TimeWithinDay(a)
  IN  LocalTime(LocalToUtc(tl)) # tl

-----------------------------------------------------------------------------
(* C1: for a valid weekly descriptor the weekly resolver returns an        *)
(* instant, never none, that is strictly after now and not before the     *)
(* anchor; when the anchor equals now and falls on the target weekday the *)
(* result is the anchor plus intervalWeeks weeks.                          *)

C1_WeeklyStrictlyAfterNow ==
  (Done /\ ValidWeekly) =>
    /\ result # Null
    /\ result > now
    /\ result >= Anchor
    /\ (Anchor = now /\ Num(getDay(Anchor)) = Weekday)
         => result = addWeeks(Anchor, IntervalWeeks)

\* C1 without its last part: the result exists, is after now, not before the anchor.
C1_Bounds ==
  (Done /\ ValidWeekly) => (result # Null /\ result > now /\ result >= Anchor)

-----------------------------------------------------------------------------
(* C2: for a valid monthly descriptor an instant returned by the monthly   *)
(* resolver is strictly after now, not before the anchor, and has the      *)
(* anchor's hour and minute, also when weekOfMonth = 5 spills over.        *)

C2_MonthlyAfterNowSameTime ==
  (Done /\ ValidMonthly /\ result # Null) =>
    /\ result > now
    /\ result >= Anchor
    /\ SameTimeOfDay(result, Anchor)

\* C2 as amended: the anchor's time of day unless the host zone skips it on
\* the occurrence's date.
C2_MonthlyAfterNowSameTimeUnlessSkipped ==
  (Done /\ ValidMonthly /\ result # Null) =>
    /\ result > now
    /\ result >= Anchor
    /\ (SameTimeOfDay(result, Anchor) \/ SkippedOn(result, Anchor))

C2_Witness ==
  /\ Done /\ ValidMonthly /\ result # Null
  /\ WeekOfMonth = Num(5)
  /\ getMonth(result) # getMonth(visited[Len(visited)])

-----------------------------------------------------------------------------
(* C3: the weekly resolver returns the smallest instant of the series      *)
(* base + k*intervalWeeks weeks (k >= 0) that is strictly after now, base  *)
(* being the resolver's first occurrence on/after the anchor; the jump     *)
(* never overshoots an occurrence after now, and the catch-up loop         *)
(* executes at most one interval step.                                     *)

\* The k-th instant of the series that starts at the resolver's base.
SeriesMember(k) == addWeeks(base, k * IntervalWeeks)

\* An index whose member is certainly after t: the members are one interval
\* of weeks apart in calendar days.
IndexBound(t) ==
  IF LocalDay(t) < LocalDay(base) THEN 0
  ELSE Num(LocalDay(t) - LocalDay(base)) \div (7 * IntervalWeeks) + 1

\* r is the smallest member of the series strictly after t.
SmallestMemberAfter(r, t) ==
  \E k \in 0..IndexBound(t) :
    /\ r = SeriesMember(k)
    /\ r > t
    /\ k > 0 => SeriesMember(k - 1) <= t

C3_WeeklyFirstOccurrence ==
  /\ (Done /\ ValidWeekly) => (SmallestMemberAfter(result, now) /\ steps <= 1)
  /\ (pc = "weekly_loop" /\ ValidWeekly /\ steps = 0)
       => \A k \in 0..IndexBound(now) :
            SeriesMember(k) > now => candidate <= SeriesMember(k)

\* C3's statement of the result alone: the smallest member after now.
C3_WeeklySmallestMember == (Done /\ ValidWeekly) => SmallestMemberAfter(result, now)

\* C3's statement of the catch-up loop alone, and with two steps for one.
C3_OneStep == (Done /\ ValidWeekly) => steps <= 1
C3_TwoSteps == (Done /\ ValidWeekly) => steps <= 2

\* C3's statement of the jump alone.
C3_NoOvershoot ==
  (pc = "weekly_loop" /\ ValidWeekly /\ steps = 0)
    => \A k \in 0..IndexBound(now) :
         SeriesMember(k) > now => candidate <= SeriesMember(k)

-----------------------------------------------------------------------------
(* C5: for a valid weekly descriptor the returned instant falls on the     *)
(* target weekday, has the anchor's time of day, and lies a whole,         *)
(* non-negative multiple of intervalWeeks weeks after base.  The formula   *)
(* lets the time of day differ where the host zone skips the anchor's     *)
(* wall-clock time on the result's date; the claim implies it.             *)

C5_WeeklyOnSeriesGrid ==
  (Done /\ ValidWeekly /\ result # Null) =>
    /\ Num(getDay(result)) = Weekday
    /\ (SameTimeOfDay(result, Anchor) \/ SkippedOn(result, Anchor))
    /\ LocalDay(result) >= LocalDay(base)
    /\ (Num(LocalDay(result) - LocalDay(base))) % (7 * IntervalWeeks) = 0

-----------------------------------------------------------------------------
(* C9: for a fixed valid descriptor and anchor the resolved instant does   *)
(* not decrease as now increases (prev is the instant resolved at an      *)
(* earlier now).                                                           *)

C9_MonotoneInNow ==
  (Done /\ (ValidWeekly \/ ValidMonthly) /\ result # Null /\ prev # Null)
    => result >= prev

\* C9 for the monthly resolver alone.
C9_MonotoneMonthly ==
  (Done /\ ValidMonthly /\ result # Null /\ prev # Null) => result >= prev

-----------------------------------------------------------------------------
(* C4: the monthly resolver returns the smallest instant strictly after    *)
(* now of the series: nthWeekdayOfMonth of every calendar month stamped    *)
(* with the anchor's time of day, restricted to instants not before the   *)
(* anchor.                                                                 *)

MonthOrd(t) == getFullYear(t) * 12 + getMonth(t)

OccOfMonth(o) ==
  setTimeFromAnchor(nthWeekdayOfMonth(o \div 12, o % 12, Weekday, WeekOfMonth), Anchor)

C4_MonthlyFirstOccurrence ==
  (Done /\ ValidMonthly /\ result # Null) =>
    /\ \E o \in (MonthOrd(now) - 2)..(MonthOrd(result) + 1) : result = OccOfMonth(o)
    /\ \A o \in (MonthOrd(now) - 2)..(MonthOrd(result) + 1) :
         ~(OccOfMonth(o) >= Anchor /\ OccOfMonth(o) > now /\ OccOfMonth(o) < result)

-----------------------------------------------------------------------------
(* C6: the date of an instant returned by the monthly resolver equals      *)
(* nthWeekdayOfMonth(weekday, weekOfMonth) of some calendar month that is  *)
(* the anchor's month or a later one.                                      *)

NthOfMonth(o) == nthWeekdayOfMonth(o \div 12, o % 12, Weekday, WeekOfMonth)

C6_MonthlyDateOfAnchorMonthOrLater ==
  (Done /\ ValidMonthly /\ result # Null) =>
    \E o \in MonthOrd(Anchor)..MonthOrd(result) : startOfDay(result) = NthOfMonth(o)

\* C6 as amended: or of the month before the anchor's, whose fifth weekday
\* spills into the anchor's month.
C6_MonthlyDateOfAnchorMonthOrSpill ==
  (Done /\ ValidMonthly /\ result # Null) =>
    \E o \in (MonthOrd(Anchor) - 1)..MonthOrd(result) :
      /\ startOfDay(result) = NthOfMonth(o)
      /\ o < MonthOrd(Anchor) =>
           (WeekOfMonth = Num(5) /\ MonthOrd(NthOfMonth(o)) = MonthOrd(Anchor))

C6_Witness ==
  /\ Done /\ ValidMonthly /\ result # Null
  /\ MonthOrd(visited[Len(visited)]) < MonthOrd(Anchor)

-----------------------------------------------------------------------------
(* C10: the monthly search ends within 24 iterations, visiting now's month *)
(* and the following months one by one; with anchor <= now it returns the  *)
(* nth-weekday instant of now's month or of the next in the first or       *)
(* second iteration; it returns none only when each of the 24 months       *)
(* examined yields an instant before the anchor.                           *)

C10_MonthlySearchBounded ==
  /\ i <= 24 /\ Len(visited) <= 24
  /\ \A j \in 1..Len(visited) :
       visited[j] = NewDate(getFullYear(now), getMonth(now) + j - 1, 1)
  /\ (pc = "monthly_loop") => (Len(visited) = i /\ cursor = NewDate(getFullYear(now), getMonth(now) + i, 1))
  /\ (Done /\ ValidMonthly /\ Anchor <= now) =>
       /\ result # Null
       /\ Len(visited) \in {1, 2}
       /\ result = OccOfMonth(MonthOrd(now) + Len(visited) - 1)
  /\ (Done /\ ValidMonthly /\ result = Null) =>
       /\ Len(visited) = 24
       /\ \A j \in 1..24 : OccOfMonth(MonthOrd(now) + j - 1) < Anchor

C10_Witness ==
  Done /\ ValidMonthly /\ result = Null /\ Len(visited) = 24

-----------------------------------------------------------------------------
(* C7: a descriptor that violates the data model's invariant resolves to   *)
(* none: a weekly one whose weekday is not an integer in 0..6 or whose     *)
(* interval is present and not an integer >= 1, a monthly one whose        *)
(* weekday is not an integer in 0..6 or whose weekOfMonth is not an        *)
(* integer in 1..5.                                                        *)

C7_InvalidDescriptorIsNone ==
  /\ (Done /\ Resolvable /\ ev.cadence.type = "weekly" /\ ~ValidWeekly) => result = Null
  /\ (Done /\ Resolvable /\ ev.cadence.type = "monthly" /\ ~ValidMonthly) => result = Null

-----------------------------------------------------------------------------
(* C8: nextOccurrenceForEvent returns none when the cadence is absent or   *)
(* not an object, the anchor is absent or unparseable, or the type is      *)
(* neither weekly nor monthly; otherwise it returns what the resolver of   *)
(* that type returns for the parsed anchor and the same now.               *)

C8_DispatcherSoftFail ==
  Done =>
    IF \/ ev.cadence.kind # "object"
       \/ ev.dateStart.k # "date"
       \/ ev.cadence.type \notin {"weekly", "monthly"}
    THEN result = Null /\ route = "none"
    ELSE route = ev.cadence.type /\ anchorStart = ev.dateStart.t

C8_Witness ==
  Done /\ ev.cadence.kind = "object" /\ ev.dateStart.k = "invalid" /\ result = Null

=============================================================================
